---- MODULE Spec2Model ----
(***************************************************************************)
(* Model of zoom.py: the ZoomOAuth and ZoomAPI wrappers, the callers that  *)
(* invoke them from concurrent threads, and the Zoom provider they talk    *)
(* to over HTTP.                                                           *)
(*                                                                         *)
(* Strings that the code builds by concatenation are sequences of pieces.  *)
(* A piece is either one character ("a", "&", "=") or a literal word of    *)
(* the source that holds none of the characters "?", "&", "=".             *)
(* Concatenation ('+', str.join) is \o.                                    *)
(***************************************************************************)
EXTENDS Integers, Sequences, FiniteSets, TLC

\* Total number of operations the callers start in one behaviour.
MaxOps == 2

\* The caller's threads.
Threads == {"t1", "t2"}

(***************************************************************************)
(* Configuration: django settings read by the class body of ZoomOAuth.     *)
(***************************************************************************)
\* (ClientID, ClientSecret, Zoom_Redirect_URI) triples an application may be
\* configured with. "id:secret" is 4, 5 and 6 bytes long: every Base64 padding.
Configurations ==
    {[ClientID |-> <<"a", "b">>, ClientSecret |-> <<"s">>,
      Zoom_Redirect_URI |-> <<"https://app.example/zoom/callback">>],
     [ClientID |-> <<"a", "b">>, ClientSecret |-> <<"p", "q">>,
      Zoom_Redirect_URI |->
          <<"https://app.example/cb", "?", "next", "=", "home", "&", "tab", "=", "2">>],
     [ClientID |-> <<"Z", "9", "x">>, ClientSecret |-> <<"p", "q">>,
      Zoom_Redirect_URI |-> <<"https://app.example/zoom/callback">>]}

\* type=2 default argument of create_meeting and update_meeting
DefaultType == 2

VARIABLES
    settings,   \* ClientID, ClientSecret, Zoom_Redirect_URI (class attributes)
    th,         \* per thread: the operation it runs and that operation's locals
    provider,   \* the Zoom provider's token state
    known,      \* tokens the caller can read from values returned to it
    started,    \* number of operations started
    apiOpsDone, \* ZoomAPI operations that have ended (returned or raised)
    refreshCalls,  \* token-refresh calls issued from inside ZoomAPI operations
    resourceCalls  \* resource calls issued by ZoomAPI operations

vars == <<settings, th, provider, known, started, apiOpsDone, refreshCalls, resourceCalls>>

\* The token strings the provider hands out, in the order it issues them
\* (more than MaxOps of each: an operation obtains at most one pair).
AccessTokenPool == <<"at1", "at2", "at3", "at4", "at5", "at6", "at7", "at8">>
RefreshTokenPool == <<"rt1", "rt2", "rt3", "rt4", "rt5", "rt6", "rt7", "rt8">>

(***************************************************************************)
(* base64.b64encode and str.encode('utf-8') for the ASCII characters used. *)
(***************************************************************************)
Ord(c) ==
    CASE c = "a" -> 97 [] c = "b" -> 98 [] c = "p" -> 112 [] c = "q" -> 113
      [] c = "s" -> 115 [] c = "x" -> 120 [] c = "Z" -> 90 [] c = "9" -> 57
      [] c = ":" -> 58

encode_utf8(s) == [i \in 1..Len(s) |-> Ord(s[i])]

B64Alphabet ==
    <<"A","B","C","D","E","F","G","H","I","J","K","L","M","N","O","P",
      "Q","R","S","T","U","V","W","X","Y","Z","a","b","c","d","e","f",
      "g","h","i","j","k","l","m","n","o","p","q","r","s","t","u","v",
      "w","x","y","z","0","1","2","3","4","5","6","7","8","9","+","/">>

B64Char(n) == B64Alphabet[n + 1]

RECURSIVE b64encode(_)
b64encode(bytes) ==
    IF Len(bytes) = 0 THEN <<>>
    ELSE IF Len(bytes) = 1 THEN
        <<B64Char(bytes[1] \div 4), B64Char((bytes[1] % 4) * 16), "=", "=">>
    ELSE IF Len(bytes) = 2 THEN
        <<B64Char(bytes[1] \div 4),
          B64Char((bytes[1] % 4) * 16 + bytes[2] \div 16),
          B64Char((bytes[2] % 16) * 4), "=">>
    ELSE
        <<B64Char(bytes[1] \div 4),
          B64Char((bytes[1] % 4) * 16 + bytes[2] \div 16),
          B64Char((bytes[2] % 16) * 4 + bytes[3] \div 64),
          B64Char(bytes[3] % 64)>>
        \o b64encode(SubSeq(bytes, 4, Len(bytes)))

\* bytes.decode('utf-8') of Base64 output: every byte is one ASCII character
decode_utf8(cs) == cs

(***************************************************************************)
(* class ZoomOAuth                                                         *)
(***************************************************************************)
auth_url == <<"https://zoom.us/oauth/">>

\* faulty variant: the ':' between id and secret is left out
id_secret_encrypted_no_separator ==
    decode_utf8(b64encode(encode_utf8(settings.ClientID \o settings.ClientSecret)))

\* ZoomOAuth.__init__: self.id_secret_encrypted
id_secret_encrypted ==
    decode_utf8(b64encode(encode_utf8(settings.ClientID \o <<":">> \o settings.ClientSecret)))

RECURSIVE join(_, _)
\* sep.join(parts)
join(sep, parts) ==
    IF Len(parts) = 0 THEN <<>>
    ELSE IF Len(parts) = 1 THEN parts[1]
    ELSE parts[1] \o sep \o join(sep, Tail(parts))

\* the params dict of request_authorization_code, in insertion order
authorize_params ==
    << <<(<<"client_id">>), settings.ClientID>>,
       <<(<<"response_type">>), (<<"code">>)>>,
       <<(<<"redirect_uri">>), settings.Zoom_Redirect_URI>> >>

\* ZoomOAuth.request_authorization_code
request_authorization_code_url ==
    auth_url \o <<"authorize">> \o <<"?">>
    \o join(<<"&">>, [i \in 1..Len(authorize_params) |-> join(<<"=">>, authorize_params[i])])

oauth_headers ==
    [ContentType |-> "application/x-www-form-urlencoded",
     Authorization |-> <<"Basic ">> \o id_secret_encrypted]

NoJson == [none |-> TRUE]

\* ZoomOAuth.get_first_token: the request it posts
get_first_token_request(code) ==
    [method |-> "POST", url |-> auth_url \o <<"token">>, headers |-> oauth_headers,
     params |-> [code |-> code, grant_type |-> "authorization_code",
                 redirect_uri |-> settings.Zoom_Redirect_URI],
     json |-> NoJson]

\* ZoomOAuth.get_access_token: the request it posts
get_access_token_request(refresh_token) ==
    [method |-> "POST", url |-> auth_url \o <<"token">>, headers |-> oauth_headers,
     params |-> [grant_type |-> "refresh_token", refresh_token |-> refresh_token],
     json |-> NoJson]

\* ZoomOAuth.revoke_token: the request it posts
revoke_token_request(access_token) ==
    [method |-> "POST", url |-> auth_url \o <<"revoke">>, headers |-> oauth_headers,
     params |-> [token |-> access_token],
     json |-> NoJson]

\* faulty variant: response.raise_for_status() before the return
raise_for_status(resp) ==
    IF resp.status_code >= 400 THEN "HTTPError" ELSE "none"

\* faulty variant: an error body is turned into an exception
raise_on_error_body(resp) ==
    IF "error" \in DOMAIN resp.body THEN "AuthError" ELSE "none"

\* The exception a ZoomOAuth method raises once requests.post has answered:
\* none, `return response` follows the post with no look at the status.
oauth_exception(resp) == "none"

(***************************************************************************)
(* class ZoomAPI                                                           *)
(***************************************************************************)
api_url == <<"https://api.zoom.us/v2/">>

\* The exception raised by subscripting refresh.json() with 'access_token'
\* when the key is absent; "none" when the key is there.
access_token_lookup(resp) ==
    IF "access_token" \in DOMAIN resp.body THEN "none" ELSE "KeyError"

\* faulty variant: the bearer token comes from a cache shared by all operations, which
\* holds the token the latest earlier refresh obtained
bearer_headers_shared(resp) ==
    [Authorization |->
        <<"Bearer ", IF provider.issued = 0 THEN resp.body.access_token
                     ELSE AccessTokenPool[provider.issued]>>]

\* headers = {'Authorization': 'Bearer ' + <refresh response>.json()['access_token']}
bearer_headers(resp) ==
    [Authorization |-> <<"Bearer ", resp.body.access_token>>]

\* a default argument: the caller's value when it passes one
default_arg(supplied, dflt) == IF supplied = <<>> THEN dflt ELSE supplied[1]

get_user_zak_request(headers, a) ==
    [method |-> "GET", url |-> api_url \o <<"users/me/zak">>, headers |-> headers,
     params |-> [none |-> TRUE], json |-> NoJson]

\* faulty variant: the default of type is 1 (instant)
create_meeting_request_type1(headers, a) ==
    [method |-> "POST", url |-> api_url \o <<"users/me/meetings">>, headers |-> headers,
     params |-> [none |-> TRUE],
     json |-> [topic |-> a.meeting_name, start_time |-> a.start_time,
               duration |-> a.duration, timezone |-> a.timezone,
               agenda |-> a.agenda, settings |-> a.settings,
               type |-> default_arg(a.type, 1)]]

create_meeting_request(headers, a) ==
    [method |-> "POST", url |-> api_url \o <<"users/me/meetings">>, headers |-> headers,
     params |-> [none |-> TRUE],
     json |-> [topic |-> a.meeting_name, start_time |-> a.start_time,
               duration |-> a.duration, timezone |-> a.timezone,
               agenda |-> a.agenda, settings |-> a.settings,
               type |-> default_arg(a.type, DefaultType)]]

get_meetings_request(headers, a) ==
    [method |-> "GET", url |-> api_url \o <<"users/me/meetings">>, headers |-> headers,
     params |-> [none |-> TRUE], json |-> NoJson]

get_meeting_details_request(headers, a) ==
    [method |-> "GET", url |-> api_url \o <<"meetings/">> \o a.meeting_id, headers |-> headers,
     params |-> [none |-> TRUE], json |-> NoJson]

delete_meeting_request(headers, a) ==
    [method |-> "DELETE", url |-> api_url \o <<"meetings/">> \o a.meeting_id, headers |-> headers,
     params |-> [none |-> TRUE], json |-> NoJson]

update_meeting_request(headers, a) ==
    [method |-> "PUT", url |-> api_url \o <<"meetings/">> \o a.meeting_id, headers |-> headers,
     params |-> [none |-> TRUE],
     json |-> [topic |-> a.meeting_name, start_time |-> a.start_time,
               duration |-> a.duration, timezone |-> a.timezone,
               agenda |-> a.agenda, recurrence |-> a.recurrence,
               settings |-> a.settings,
               type |-> default_arg(a.type, DefaultType)]]

\* faulty variant: the status is sent along with a meeting type
update_meeting_status_request_full(headers, a) ==
    [method |-> "PUT", url |-> api_url \o <<"meetings/">> \o a.meeting_id, headers |-> headers,
     params |-> [none |-> TRUE],
     json |-> [status |-> a.status, type |-> DefaultType]]

update_meeting_status_request(headers, a) ==
    [method |-> "PUT", url |-> api_url \o <<"meetings/">> \o a.meeting_id, headers |-> headers,
     params |-> [none |-> TRUE],
     json |-> [status |-> a.status]]

list_users_request(headers, a) ==
    [method |-> "GET", url |-> api_url \o <<"users">>, headers |-> headers,
     params |-> [none |-> TRUE], json |-> NoJson]

get_user_details_request(headers, a) ==
    [method |-> "GET", url |-> api_url \o <<"users/">> \o a.user_id, headers |-> headers,
     params |-> [none |-> TRUE], json |-> NoJson]

check_user_email_request(headers, a) ==
    [method |-> "GET", url |-> api_url \o <<"users/email">>, headers |-> headers,
     params |-> [none |-> TRUE],
     json |-> [email |-> a.email]]

ApiOps ==
    {"get_user_zak", "create_meeting", "get_meetings", "get_meeting_details",
     "delete_meeting", "update_meeting", "update_meeting_status", "list_users",
     "get_user_details", "check_user_email"}

OAuthOps == {"get_first_token", "get_access_token", "revoke_token"}

\* the resource request of the operation `op`, sent once the headers are built
resource_request(op, headers, a) ==
    CASE op = "get_user_zak" -> get_user_zak_request(headers, a)
      [] op = "create_meeting" -> create_meeting_request(headers, a)
      [] op = "get_meetings" -> get_meetings_request(headers, a)
      [] op = "get_meeting_details" -> get_meeting_details_request(headers, a)
      [] op = "delete_meeting" -> delete_meeting_request(headers, a)
      [] op = "update_meeting" -> update_meeting_request(headers, a)
      [] op = "update_meeting_status" -> update_meeting_status_request(headers, a)
      [] op = "list_users" -> list_users_request(headers, a)
      [] op = "get_user_details" -> get_user_details_request(headers, a)
      [] op = "check_user_email" -> check_user_email_request(headers, a)

\* faulty variant: the refresh response is what the operation returns
api_return_refresh(resps) == resps[1]

\* what a ZoomAPI operation returns: the response of requests.<method>(...)
api_return(resps) == resps[2]

\* what a ZoomOAuth operation returns: the response of requests.post(...)
oauth_return(resps) == resps[1]

(***************************************************************************)
(* The Zoom provider, as the docstrings of zoom.py describe it: a token     *)
(* response carries access_token and refresh_token, "the latest refresh     *)
(* token must always be used for the next refresh request".                 *)
(***************************************************************************)
IssuedAccess(p) == {AccessTokenPool[i] : i \in 1..p.issued}

\* the Basic credentials the provider has registered for the app
registered_basic ==
    <<"Basic ">> \o b64encode(encode_utf8(settings.ClientID \o <<":">> \o settings.ClientSecret))

\* the one-time authorization codes the provider has handed to the user's browser
GoodCodes == {"code-1", "code-2"}

token_granted(p, codes) ==
    [resp |-> [status_code |-> 200,
               body |-> [access_token |-> AccessTokenPool[p.issued + 1],
                         token_type |-> "Bearer",
                         refresh_token |-> RefreshTokenPool[p.issued + 1],
                         expires_in |-> 3600,
                         scope |-> "user:read user:write"]],
     p |-> [p EXCEPT !.issued = p.issued + 1, !.current = p.issued + 1,
                     !.usedCodes = p.usedCodes \cup codes]]

error_response(p, status, reason) ==
    [resp |-> [status_code |-> status, body |-> [reason |-> reason, error |-> "error"]],
     p |-> p]

\* POST https://zoom.us/oauth/token
token_endpoint(p, req) ==
    LET byCode == req.params.grant_type = "authorization_code"
        valid ==
            /\ req.headers.Authorization = registered_basic
            /\ IF byCode
               THEN /\ req.params.code \in GoodCodes \ p.usedCodes
                    /\ req.params.redirect_uri = settings.Zoom_Redirect_URI
               ELSE /\ p.current > 0
                    /\ req.params.refresh_token = RefreshTokenPool[p.current]
    IN  IF valid
        THEN {token_granted(p, IF byCode THEN {req.params.code} ELSE {}),
              error_response(p, 500, "Internal Server Error")}
        ELSE {error_response(p, 400, "Invalid Token!")}

\* POST https://zoom.us/oauth/revoke
revoke_endpoint(p, req) ==
    LET tok == req.params.token
    IN  IF tok \in IssuedAccess(p) /\ tok \notin p.revoked
        THEN {[resp |-> [status_code |-> 200, body |-> [status |-> "success"]],
               p |-> [p EXCEPT !.revoked = p.revoked \cup {tok}]]}
        ELSE {[resp |-> [status_code |-> 200, body |-> [status |-> "success"]], p |-> p],
              error_response(p, 400, "Invalid Token!")}

\* any request to https://api.zoom.us/v2/
resource_endpoint(p, req) ==
    LET auth == req.headers.Authorization
        valid == /\ Len(auth) = 2
                 /\ auth[1] = "Bearer "
                 /\ auth[2] \in IssuedAccess(p) \ p.revoked
    IN  IF valid
        THEN {[resp |-> [status_code |-> 200, body |-> [data |-> req.url]], p |-> p],
              error_response(p, 404, "Not found"),
              error_response(p, 500, "Internal Server Error")}
        ELSE {error_response(p, 401, "Invalid access token.")}

(***************************************************************************)
(* The callers                                                             *)
(***************************************************************************)
\* the tokens a caller can read out of a value returned to it
tokens_in(resp) ==
    {resp.body[k] : k \in DOMAIN resp.body \cap {"access_token", "refresh_token"}}

Refresh(S) == {x \in S : \E i \in 1..Len(RefreshTokenPool) : x = RefreshTokenPool[i]}
Access(S) == {x \in S : \E i \in 1..Len(AccessTokenPool) : x = AccessTokenPool[i]}

\* what a caller may pass as refresh_token / access_token / code
RefreshArgs == Refresh(known) \cup {"rt-bogus"}
AccessArgs == Access(known) \cup {"at-bogus"}
Codes == GoodCodes \cup {"bad-code"}
MeetingIds == {<<"123">>}
UserIds == {<<"u42">>}
TypeArgs == {<<>>, <<8>>}

MeetingArgs(R, ty) ==
    [refresh_token |-> R, meeting_id |-> <<"123">>, meeting_name |-> "Standup",
     start_time |-> "2024-01-01T09:00:00Z", duration |-> 30, timezone |-> "UTC",
     agenda |-> "daily", recurrence |-> [type |-> 1], settings |-> [host_video |-> TRUE],
     type |-> ty]

Free(t) == th[t].pc \in {"idle", "returned", "raised"} /\ started < MaxOps

Idle == [pc |-> "idle", op |-> "none", args |-> [none |-> TRUE], reqs |-> <<>>,
         resps |-> <<>>, result |-> <<>>, exc |-> "none"]

\* a ZoomOAuth method called by the caller itself: runs to its requests.post
call_oauth(t, op, a, req) ==
    /\ Free(t)
    /\ th' = [th EXCEPT ![t] = [Idle EXCEPT !.pc = "wait_oauth", !.op = op,
                                            !.args = a, !.reqs = <<req>>]]
    /\ started' = started + 1
    /\ UNCHANGED <<settings, provider, known, apiOpsDone, refreshCalls, resourceCalls>>

\* a ZoomAPI method: runs to the requests.post inside
\* ZoomOAuth().get_access_token(refresh_token=refresh_token)
call_api(t, op, a) ==
    /\ Free(t)
    /\ th' = [th EXCEPT ![t] = [Idle EXCEPT !.pc = "wait_refresh", !.op = op,
                  !.args = a, !.reqs = <<get_access_token_request(a.refresh_token)>>]]
    /\ started' = started + 1
    /\ refreshCalls' = refreshCalls + 1
    /\ UNCHANGED <<settings, provider, known, apiOpsDone, resourceCalls>>

request_authorization_code(t) ==
    /\ Free(t)
    /\ th' = [th EXCEPT ![t] = [Idle EXCEPT !.pc = "returned",
                  !.op = "request_authorization_code",
                  !.result = <<request_authorization_code_url>>]]
    /\ started' = started + 1
    /\ UNCHANGED <<settings, provider, known, apiOpsDone, refreshCalls, resourceCalls>>

get_first_token(t) ==
    \E code \in Codes :
        call_oauth(t, "get_first_token", [code |-> code], get_first_token_request(code))

get_access_token(t) ==
    \E R \in RefreshArgs :
        call_oauth(t, "get_access_token", [refresh_token |-> R], get_access_token_request(R))

revoke_token(t) ==
    \E A \in AccessArgs :
        call_oauth(t, "revoke_token", [access_token |-> A], revoke_token_request(A))

get_user_zak(t) ==
    \E R \in RefreshArgs : call_api(t, "get_user_zak", [refresh_token |-> R])

create_meeting(t) ==
    \E R \in RefreshArgs, ty \in TypeArgs : call_api(t, "create_meeting", MeetingArgs(R, ty))

get_meetings(t) ==
    \E R \in RefreshArgs : call_api(t, "get_meetings", [refresh_token |-> R])

get_meeting_details(t) ==
    \E R \in RefreshArgs, m \in MeetingIds :
        call_api(t, "get_meeting_details", [refresh_token |-> R, meeting_id |-> m])

delete_meeting(t) ==
    \E R \in RefreshArgs, m \in MeetingIds :
        call_api(t, "delete_meeting", [refresh_token |-> R, meeting_id |-> m])

update_meeting(t) ==
    \E R \in RefreshArgs, ty \in TypeArgs : call_api(t, "update_meeting", MeetingArgs(R, ty))

update_meeting_status(t) ==
    \E R \in RefreshArgs, m \in MeetingIds :
        call_api(t, "update_meeting_status",
                 [refresh_token |-> R, meeting_id |-> m, status |-> "end"])

list_users(t) ==
    \E R \in RefreshArgs : call_api(t, "list_users", [refresh_token |-> R])

get_user_details(t) ==
    \E R \in RefreshArgs, u \in UserIds :
        call_api(t, "get_user_details", [refresh_token |-> R, user_id |-> u])

check_user_email(t) ==
    \E R \in RefreshArgs :
        call_api(t, "check_user_email", [refresh_token |-> R, email |-> "a@example.com"])

\* requests.post of a ZoomOAuth method answers; the method returns the response
oauth_reply(t) ==
    /\ th[t].pc = "wait_oauth"
    /\ \E o \in (IF th[t].op = "revoke_token"
                 THEN revoke_endpoint(provider, th[t].reqs[1])
                 ELSE token_endpoint(provider, th[t].reqs[1])) :
          LET resps == <<o.resp>>
              ret == oauth_return(resps)
          IN  /\ provider' = o.p
              /\ IF oauth_exception(o.resp) = "none"
                 THEN /\ th' = [th EXCEPT ![t].pc = "returned", ![t].resps = resps,
                                          ![t].result = <<ret>>]
                      /\ known' = known \cup tokens_in(ret)
                 ELSE /\ th' = [th EXCEPT ![t].pc = "raised", ![t].resps = resps,
                                          ![t].exc = oauth_exception(o.resp)]
                      /\ known' = known
    /\ UNCHANGED <<settings, started, apiOpsDone, refreshCalls, resourceCalls>>

\* the refresh inside a ZoomAPI method answers; the method subscripts
\* .json()['access_token'], builds its headers and sends its resource request
refresh_reply(t) ==
    /\ th[t].pc = "wait_refresh"
    /\ \E o \in token_endpoint(provider, th[t].reqs[1]) :
          /\ provider' = o.p
          /\ IF access_token_lookup(o.resp) = "none"
             THEN /\ th' = [th EXCEPT ![t].pc = "wait_resource", ![t].resps = <<o.resp>>,
                                ![t].reqs = Append(th[t].reqs,
                                    resource_request(th[t].op, bearer_headers(o.resp),
                                                     th[t].args))]
                  /\ resourceCalls' = resourceCalls + 1
                  /\ apiOpsDone' = apiOpsDone
             ELSE /\ th' = [th EXCEPT ![t].pc = "raised", ![t].resps = <<o.resp>>,
                                ![t].exc = access_token_lookup(o.resp)]
                  /\ resourceCalls' = resourceCalls
                  /\ apiOpsDone' = apiOpsDone + 1
    /\ UNCHANGED <<settings, known, started, refreshCalls>>

\* the resource request of a ZoomAPI method answers; the method returns
resource_reply(t) ==
    /\ th[t].pc = "wait_resource"
    /\ \E o \in resource_endpoint(provider, th[t].reqs[2]) :
          LET resps == Append(th[t].resps, o.resp)
              ret == api_return(resps)
          IN  /\ th' = [th EXCEPT ![t].pc = "returned", ![t].resps = resps,
                                  ![t].result = <<ret>>]
              /\ provider' = o.p
              /\ known' = known \cup tokens_in(ret)
    /\ apiOpsDone' = apiOpsDone + 1
    /\ UNCHANGED <<settings, started, refreshCalls, resourceCalls>>

Init ==
    /\ settings \in Configurations
    /\ th = [t \in Threads |-> Idle]
    \* either nobody has authorized the application yet, or a user has (code-1
    \* exchanged by get_first_token in an earlier run) and the caller has kept
    \* the token set, as the docstring of get_access_token asks
    /\ \/ /\ provider = [issued |-> 0, current |-> 0, usedCodes |-> {}, revoked |-> {}]
          /\ known = {}
       \/ /\ provider = [issued |-> 1, current |-> 1, usedCodes |-> {"code-1"},
                          revoked |-> {}]
          /\ known = {AccessTokenPool[1], RefreshTokenPool[1]}
    /\ started = 0
    /\ apiOpsDone = 0
    /\ refreshCalls = 0
    /\ resourceCalls = 0

Next ==
    \E t \in Threads :
        \/ request_authorization_code(t)
        \/ get_first_token(t)
        \/ get_access_token(t)
        \/ revoke_token(t)
        \/ get_user_zak(t)
        \/ create_meeting(t)
        \/ get_meetings(t)
        \/ get_meeting_details(t)
        \/ delete_meeting(t)
        \/ update_meeting(t)
        \/ update_meeting_status(t)
        \/ list_users(t)
        \/ get_user_details(t)
        \/ check_user_email(t)
        \/ oauth_reply(t)
        \/ refresh_reply(t)
        \/ resource_reply(t)

Spec == Init /\ [][Next]_vars

(***************************************************************************)
(* Vocabulary of the properties                                            *)
(***************************************************************************)
Ended(t) == th[t].pc \in {"returned", "raised"}
IsApi(t) == th[t].op \in ApiOps
InFlightApi(t) == th[t].pc \in {"wait_refresh", "wait_resource"}
token_url == auth_url \o <<"token">>

\* the refresh call of t's ZoomAPI operation was answered with a token set
Refreshed(t) ==
    /\ IsApi(t)
    /\ Len(th[t].resps) >= 1
    /\ "access_token" \in DOMAIN th[t].resps[1].body

IsPrefix(a, b) == Len(a) <= Len(b) /\ SubSeq(b, 1, Len(a)) = a

\* Base64 decoding, written from RFC 4648 and not from b64encode
B64Index(c) == CHOOSE i \in 0..63 : B64Alphabet[i + 1] = c

RECURSIVE b64decode(_)
b64decode(cs) ==
    IF Len(cs) < 4 THEN <<>>
    ELSE LET i1 == B64Index(cs[1])
             i2 == B64Index(cs[2])
             rest == b64decode(SubSeq(cs, 5, Len(cs)))
         IN  IF cs[3] = "=" THEN <<i1 * 4 + i2 \div 16>>
             ELSE IF cs[4] = "="
             THEN <<i1 * 4 + i2 \div 16, (i2 % 16) * 16 + B64Index(cs[3]) \div 4>>
             ELSE <<i1 * 4 + i2 \div 16,
                    (i2 % 16) * 16 + B64Index(cs[3]) \div 4,
                    (B64Index(cs[3]) % 4) * 64 + B64Index(cs[4])>> \o rest

\* Base64 of "ab:s", "ab:pq" and "Z9x:pq", as CPython's base64.b64encode gives them
KnownBase64 ==
    IF settings.ClientID = <<"a", "b">> /\ settings.ClientSecret = <<"s">>
    THEN <<"Y", "W", "I", "6", "c", "w", "=", "=">>
    ELSE IF settings.ClientID = <<"a", "b">>
    THEN <<"Y", "W", "I", "6", "c", "H", "E", "=">>
    ELSE <<"W", "j", "l", "4", "O", "n", "B", "x">>

\* str.split(sep) on a sequence of pieces
RECURSIVE split(_, _)
split(s, sep) ==
    IF \A i \in 1..Len(s) : s[i] # sep THEN <<s>>
    ELSE LET k == CHOOSE i \in 1..Len(s) : s[i] = sep /\ \A j \in 1..(i - 1) : s[j] # sep
         IN  <<SubSeq(s, 1, k - 1)>> \o split(SubSeq(s, k + 1, Len(s)), sep)

\* the part of a URL after its first "?"
query_of(url) ==
    LET k == CHOOSE i \in 1..Len(url) : url[i] = "?" /\ \A j \in 1..(i - 1) : url[j] # "?"
    IN  SubSeq(url, k + 1, Len(url))

\* the part of a URL before its first "?"
endpoint_of(url) ==
    LET k == CHOOSE i \in 1..Len(url) : url[i] = "?" /\ \A j \in 1..(i - 1) : url[j] # "?"
    IN  SubSeq(url, 1, k - 1)

\* the query parameters of a URL, as a server reads them: fields are separated
\* by "&", a field's name ends at its first "="
parse_qsl(url) ==
    LET fields == split(query_of(url), "&")
        name(f) == split(f, "=")[1]
        value(f) == SubSeq(f, Len(name(f)) + 2, Len(f))
    IN  [i \in 1..Len(fields) |-> <<name(fields[i]), value(fields[i])>>]

(***************************************************************************)
(* C1. Every ZoomAPI operation issues exactly one token-refresh call       *)
(* followed by exactly one resource call: an operation that has ended has  *)
(* sent a refresh_token grant to the token endpoint and then one request   *)
(* to the API, and once no ZoomAPI operation is running the refresh calls  *)
(* and the resource calls both number the operations that have ended.      *)
(***************************************************************************)
C1_OneRefreshThenOneResource ==
    /\ \A t \in Threads :
          IsApi(t) /\ Ended(t) =>
              /\ Len(th[t].reqs) = 2
              /\ th[t].reqs[1].url = token_url
              /\ th[t].reqs[1].params.grant_type = "refresh_token"
              /\ IsPrefix(api_url, th[t].reqs[2].url)
    /\ (\A t \in Threads : ~InFlightApi(t)) =>
          /\ refreshCalls = apiOpsDone
          /\ resourceCalls = apiOpsDone

(***************************************************************************)
(* C2. The wrapper does not throw on a non-2xx provider response: an       *)
(* operation one of whose requests was answered 4xx or 5xx (the refresh    *)
(* inside a ZoomAPI operation included) ends by returning a response.      *)
(***************************************************************************)
C2_NoRaiseOnErrorStatus ==
    \A t \in Threads :
        (Ended(t) /\ \E i \in 1..Len(th[t].resps) : th[t].resps[i].status_code >= 400) =>
            /\ th[t].pc = "returned"
            /\ th[t].exc = "none"
            /\ Len(th[t].result) = 1

(***************************************************************************)
(* C3, as stated. get_first_token and get_access_token fail with AuthError *)
(* when the provider answers 4xx (invalid, expired or used code; invalid   *)
(* or revoked refresh token).                                              *)
(***************************************************************************)
C3_AuthErrorRaised ==
    \A t \in Threads :
        (/\ th[t].op \in {"get_first_token", "get_access_token"}
         /\ Ended(t)
         /\ th[t].resps[1].status_code \in 400..499) =>
            /\ th[t].pc = "raised"
            /\ th[t].exc = "AuthError"

(***************************************************************************)
(* C3, amended. On a 4xx answer get_first_token and get_access_token do    *)
(* not raise: they return the provider's response object, which carries    *)
(* the 4xx status and the provider's raw error body.                       *)
(***************************************************************************)
C3_ErrorResponseReturned ==
    \A t \in Threads :
        (/\ th[t].op \in {"get_first_token", "get_access_token"}
         /\ Ended(t)
         /\ th[t].resps[1].status_code \in 400..499) =>
            /\ th[t].pc = "returned"
            /\ th[t].exc = "none"
            /\ th[t].result = <<th[t].resps[1]>>
            /\ th[t].result[1].status_code = th[t].resps[1].status_code
            /\ "error" \in DOMAIN th[t].result[1].body

C3_Witness ==
    \E t, u \in Threads :
        /\ th[t].op = "get_first_token" /\ th[t].pc = "returned"
        /\ th[t].args.code \in provider.usedCodes
        /\ th[t].result[1].status_code = 400
        /\ th[u].op = "get_access_token" /\ th[u].pc = "returned"
        /\ th[u].result[1].status_code = 400

(***************************************************************************)
(* C4. revoke_token is idempotent for the caller: every call, the ones on  *)
(* an already revoked token included (which the provider may answer with   *)
(* an error status), returns the provider's response and does not raise.   *)
(***************************************************************************)
C4_RevokeNeverRaises ==
    \A t \in Threads :
        (th[t].op = "revoke_token" /\ Ended(t)) =>
            /\ th[t].pc = "returned"
            /\ th[t].exc = "none"
            /\ th[t].result = <<th[t].resps[1]>>
            /\ th[t].reqs[1].url = auth_url \o <<"revoke">>
            /\ th[t].reqs[1].params.token = th[t].args.access_token

\* a second revoke of a token, answered with an error status, has returned
C4_Witness ==
    \E t \in Threads :
        /\ th[t].op = "revoke_token" /\ th[t].pc = "returned"
        /\ th[t].args.access_token \in provider.revoked
        /\ th[t].result[1].status_code = 400

(***************************************************************************)
(* C5. Every request sent to the token endpoint, by get_first_token, by    *)
(* get_access_token and by the refresh inside a ZoomAPI operation, has the *)
(* Authorization header 'Basic ' + Base64(client_id ':' client_secret) of  *)
(* the configured credentials, and never a Bearer token, whichever access  *)
(* tokens earlier calls obtained.                                          *)
(***************************************************************************)
C5_BasicAuthOnTokenCalls ==
    \A t \in Threads :
        (Len(th[t].reqs) >= 1 /\ th[t].reqs[1].url = token_url) =>
            LET h == th[t].reqs[1].headers.Authorization
                enc == Tail(h)
            IN  /\ h[1] = "Basic "
                /\ h[1] # "Bearer "
                /\ \A a \in Access(known) : \A i \in 1..Len(h) : h[i] # a
                /\ Len(enc) % 4 = 0
                /\ b64decode(enc)
                     = encode_utf8(settings.ClientID \o <<":">> \o settings.ClientSecret)
                /\ enc = KnownBase64

\* a token call made while the caller holds an access token from an earlier call
C5_Witness ==
    \E t \in Threads :
        /\ th[t].op \in {"get_first_token", "get_access_token"}
        /\ th[t].pc = "wait_oauth"
        /\ Access(known) # {}

(***************************************************************************)
(* C6. The URL request_authorization_code returns is the authorize         *)
(* endpoint with exactly the query parameters client_id (the configured    *)
(* id), response_type=code and redirect_uri (the configured URI), and the  *)
(* client secret is not in it.                                             *)
(***************************************************************************)
C6_AuthorizeUrlParams ==
    \A t \in Threads :
        (th[t].op = "request_authorization_code" /\ th[t].pc = "returned") =>
            LET url == th[t].result[1]
            IN  /\ endpoint_of(url) = <<"https://zoom.us/oauth/", "authorize">>
                /\ parse_qsl(url)
                     = << <<(<<"client_id">>), settings.ClientID>>,
                          <<(<<"response_type">>), (<<"code">>)>>,
                          <<(<<"redirect_uri">>), settings.Zoom_Redirect_URI>> >>
                /\ \A i \in 1..Len(parse_qsl(url)) :
                      /\ parse_qsl(url)[i][1] # <<"client_secret">>
                      /\ parse_qsl(url)[i][2] # settings.ClientSecret

(***************************************************************************)
(* C7. The resource request of a ZoomAPI operation called with refresh     *)
(* token R has the Authorization header 'Bearer ' + the access token that  *)
(* the operation's own refresh call returned, and that refresh call was    *)
(* made with R. create_meeting POSTs to users/me/meetings a JSON body with *)
(* the caller's topic, start_time, duration, timezone, agenda and          *)
(* settings, and type 2 when the caller passes no type.                    *)
(***************************************************************************)
C7_BearerFromOwnRefresh ==
    \A t \in Threads :
        (IsApi(t) /\ Len(th[t].reqs) = 2) =>
            LET a == th[t].args
                req == th[t].reqs[2]
            IN  /\ th[t].reqs[1].url = token_url
                /\ th[t].reqs[1].params.grant_type = "refresh_token"
                /\ th[t].reqs[1].params.refresh_token = a.refresh_token
                /\ req.headers.Authorization
                     = <<"Bearer ", th[t].resps[1].body.access_token>>
                /\ DOMAIN req.headers = {"Authorization"}
                /\ th[t].op = "create_meeting" =>
                      /\ req.method = "POST"
                      /\ req.url = <<"https://api.zoom.us/v2/", "users/me/meetings">>
                      /\ DOMAIN req.json = {"topic", "start_time", "duration", "timezone",
                                            "agenda", "settings", "type"}
                      /\ req.json.topic = a.meeting_name
                      /\ req.json.start_time = a.start_time
                      /\ req.json.duration = a.duration
                      /\ req.json.timezone = a.timezone
                      /\ req.json.agenda = a.agenda
                      /\ req.json.settings = a.settings
                      /\ a.type = <<>> => req.json.type = 2
                      /\ a.type # <<>> => req.json.type = a.type[1]

\* create_meeting, called without a type, has sent its resource request
C7_Witness ==
    \E t \in Threads :
        /\ th[t].op = "create_meeting"
        /\ th[t].args.type = <<>>
        /\ th[t].args.refresh_token = "rt1"
        /\ th[t].pc = "returned"
        /\ th[t].result[1].status_code = 200

(***************************************************************************)
(* C8. update_meeting_status PUTs to meetings/{meeting_id} a JSON body     *)
(* whose only key is 'status', with the caller's value; update_meeting     *)
(* PUTs the full field set to the same path.                               *)
(***************************************************************************)
C8_StatusOnlyBody ==
    \A t \in Threads :
        Len(th[t].reqs) = 2 =>
            LET a == th[t].args
                req == th[t].reqs[2]
            IN  /\ th[t].op = "update_meeting_status" =>
                      /\ req.method = "PUT"
                      /\ req.url = <<"https://api.zoom.us/v2/", "meetings/">> \o a.meeting_id
                      /\ DOMAIN req.json = {"status"}
                      /\ req.json.status = a.status
                /\ th[t].op = "update_meeting" =>
                      /\ req.method = "PUT"
                      /\ req.url = <<"https://api.zoom.us/v2/", "meetings/">> \o a.meeting_id
                      /\ DOMAIN req.json = {"topic", "start_time", "duration", "timezone",
                                            "agenda", "recurrence", "settings", "type"}

\* update_meeting_status has sent its PUT and returned the provider's answer
C8_Witness ==
    \E t \in Threads :
        /\ th[t].op = "update_meeting_status"
        /\ th[t].pc = "returned"
        /\ th[t].reqs[2].json.status = "end"
        /\ th[t].result[1].status_code = 200

(***************************************************************************)
(* C9. Thread safety by statelessness: in every interleaving, a step of    *)
(* one operation changes neither the configuration nor the locals of an    *)
(* operation running in another thread, and the resource call of a ZoomAPI *)
(* operation carries the access token of its own refresh call, never the   *)
(* one a concurrently running operation obtained.                          *)
(***************************************************************************)
OwnToken ==
    \A t \in Threads :
        (IsApi(t) /\ Len(th[t].reqs) = 2) =>
            /\ Refreshed(t)
            /\ th[t].reqs[2].headers.Authorization[2] = th[t].resps[1].body.access_token
            /\ \A u \in Threads \ {t} :
                  (Len(th[u].resps) >= 1 /\ "access_token" \in DOMAIN th[u].resps[1].body) =>
                      th[t].reqs[2].headers.Authorization[2] # th[u].resps[1].body.access_token

NoSharedWrite ==
    /\ settings' = settings
    /\ \A t \in Threads : \A u \in Threads \ {t} :
          (th'[t].pc # th[t].pc \/ th'[t].op # th[t].op) => th'[u] = th[u]

\* C9: every state has OwnToken and every step has NoSharedWrite, in all
\* interleavings of the threads
C9_ThreadSafe == [](OwnToken) /\ [][NoSharedWrite]_vars

\* while a ZoomAPI operation waits for its resource call, an operation in the
\* other thread has obtained a later access token
C9_Witness ==
    \E t \in Threads : \E u \in Threads \ {t} :
        /\ th[t].pc = "wait_resource"
        /\ th[t].reqs[2].headers.Authorization = <<"Bearer ", "at2">>
        /\ Len(th[u].resps) >= 1
        /\ "access_token" \in DOMAIN th[u].resps[1].body
        /\ th[u].resps[1].body.access_token = "at3"

(***************************************************************************)
(* C10. A ZoomAPI operation returns only its resource response. No step of *)
(* it gives the caller a token, and the refresh token its refresh call     *)
(* received is not among the tokens the caller can read; the provider      *)
(* having rotated the refresh token, another ZoomAPI operation called with *)
(* the same refresh token R has its refresh rejected (and raises).         *)
(***************************************************************************)
NewRefreshTokenLost ==
    \A t \in Threads :
        (Refreshed(t) /\ Ended(t)) =>
            /\ th[t].result = <<th[t].resps[2]>>
            /\ th[t].resps[1].body.refresh_token \notin known
            /\ th[t].resps[1].body.refresh_token # th[t].args.refresh_token
            /\ Refresh(tokens_in(th[t].result[1])) = {}

ApiStepTeachesNothing ==
    \A t \in Threads :
        (IsApi(t) /\ InFlightApi(t) /\ th'[t].pc # th[t].pc) => known' = known

SecondUseRejected ==
    \A t \in Threads : \A u \in Threads \ {t} :
        (/\ Refreshed(u)
         /\ th[t].pc = "wait_refresh"
         /\ th[t].args.refresh_token = th[u].args.refresh_token
         /\ th'[t].pc # "wait_refresh") =>
            /\ th'[t].pc = "raised"
            /\ th'[t].resps[1].status_code >= 400
            /\ Len(th'[t].reqs) = 1

\* C10: the rotated refresh token never reaches the caller, and a reuse of R
\* by another ZoomAPI operation is rejected
C10_RefreshTokenNotReturned ==
    [](NewRefreshTokenLost) /\ [][ApiStepTeachesNothing /\ SecondUseRejected]_vars

\* R = rt1 was used by one ZoomAPI operation, which returned, and then by a
\* second one, which was rejected; the caller still holds rt1 and not rt2
C10_Witness ==
    \E t \in Threads : \E u \in Threads \ {t} :
        /\ Refreshed(u) /\ th[u].pc = "returned" /\ th[u].args.refresh_token = "rt1"
        /\ IsApi(t) /\ th[t].pc = "raised" /\ th[t].args.refresh_token = "rt1"
        /\ th[t].resps[1].status_code = 400
        /\ Refresh(known) = {"rt1"}

====
